---- MODULE Spec2Model ----
(***************************************************************************)
(* AndroidProbesParser (trace_processor/importers/proto): the packet       *)
(* normalizers for battery counters, power rails, Android log events and   *)
(* stats, package lists, game interventions and the initial display state. *)
(* The trace context (string pool, track registry, counter table, stats,   *)
(* per-trace tracker, tables) is the state; every parser routine is one    *)
(* action.  Strings are sequences of one-character strings.                *)
(***************************************************************************)
EXTENDS Integers, Sequences, FiniteSets, TLC

VARIABLES
  string_pool,         \* TraceStorage string pool; StringId = index, 0 = null
  stats,               \* TraceStorage stats, by stats key
  tracks,              \* TrackTracker global counter tracks; TrackId = index
  counter_table,       \* EventTracker::PushCounter rows, in emission order
  power_rail_tracks,   \* AndroidProbesTracker: rail index -> TrackId
  seen_packages,       \* AndroidProbesTracker: package names already inserted
  package_list_table,  \* storage->package_list_table rows
  game_table,          \* storage->android_game_intervenion_list_table rows
  android_log_table,   \* storage->android_log_table rows
  threads,             \* ProcessTracker threads; utid = index, 0 = none
  clock,               \* ClockTracker: the REALTIME -> trace time path
  packets,             \* packets handed in by the host loop so far
  last                 \* the call just made: routine, timestamp, payload

vars == <<string_pool, stats, tracks, counter_table, power_rail_tracks,
          seen_packages, package_list_table, game_table, android_log_table,
          threads, clock, packets, last>>

----------------------------------------------------------------------------
(* Bounds of the model.                                                    *)

MaxPackets == 2
MaxStatValue == 2
MaxPkgs == 2
MaxGamePackets == 1
MaxModes == 3
MaxLogPackets == 2
MaxArgs == 2
LongLen == 2100
HugeLen == 4200

----------------------------------------------------------------------------
(* Protozero decoder accessors: a field is (has, val); reading an absent   *)
(* field yields the default 0.                                             *)

Absent == [has |-> FALSE, val |-> 0]
Present(v) == [has |-> TRUE, val |-> v]
Opt(S) == {Absent} \cup {Present(v) : v \in S}
Get(f) == IF f.has THEN f.val ELSE 0

Range(s) == {s[i] : i \in 1..Len(s)}

----------------------------------------------------------------------------
(* TraceStorage: string pool and stats.                                    *)

NullView == [null |-> TRUE, str |-> <<>>]
View(s) == [null |-> FALSE, str |-> s]

\* StringPool::InternString: the pool after interning view v.
PoolAfter(pool, v) ==
  IF v.null \/ v.str \in Range(pool) THEN pool ELSE Append(pool, v.str)

\* StringPool::InternString: the id of view v (0 for the null view).
InternString(pool, v) ==
  IF v.null THEN 0
  ELSE IF v.str \in Range(pool)
       THEN CHOOSE i \in 1..Len(pool) : pool[i] = v.str
       ELSE Len(pool) + 1

\* TraceStorage::GetString
GetString(pool, id) == IF id = 0 THEN <<>> ELSE pool[id]

StatKeys == {"android_log_num_failed", "android_log_num_skipped",
             "android_log_num_total", "power_rail_unknown_index",
             "packages_list_has_read_errors", "packages_list_has_parse_errors",
             "game_intervention_has_read_errors",
             "game_intervention_has_parse_errors"}

SetStats(st, key, v) == [st EXCEPT ![key] = v]
IncrementStats(st, key) == [st EXCEPT ![key] = @ + 1]

----------------------------------------------------------------------------
(* TrackTracker and EventTracker.                                          *)

\* TrackTracker::InternGlobalCounterTrack: registry after interning name.
TracksAfter(trk, name_id) ==
  IF name_id \in Range(trk) THEN trk ELSE Append(trk, name_id)

\* TrackTracker::InternGlobalCounterTrack: the track of name.
InternGlobalCounterTrack(trk, name_id) ==
  IF name_id \in Range(trk)
  THEN CHOOSE i \in 1..Len(trk) : trk[i] = name_id
  ELSE Len(trk) + 1

\* EventTracker::PushCounter
PushCounter(tbl, ts, value, track) ==
  Append(tbl, [ts |-> ts, value |-> value, track |-> track])

----------------------------------------------------------------------------
(* The constructor's interned names.                                       *)

kBattCharge == <<"b","a","t","t",".","c","h","a","r","g","e","_","u","a","h">>
kBattCapacity ==
  <<"b","a","t","t",".","c","a","p","a","c","i","t","y","_","p","c","t">>
kBattCurrent ==
  <<"b","a","t","t",".","c","u","r","r","e","n","t","_","u","a">>
kBattCurrentAvg ==
  <<"b","a","t","t",".","c","u","r","r","e","n","t",".","a","v","g","_","u","a">>
kScreenState == <<"S","c","r","e","e","n","S","t","a","t","e">>
kDeviceState ==
  <<"D","e","v","i","c","e","S","t","a","t","e","C","h","a","n","g","e","d">>

ConstructorPool ==
  <<kBattCharge, kBattCapacity, kBattCurrent, kBattCurrentAvg, kScreenState,
    kDeviceState>>

batt_charge_id == InternString(ConstructorPool, View(kBattCharge))
batt_capacity_id == InternString(ConstructorPool, View(kBattCapacity))
batt_current_id == InternString(ConstructorPool, View(kBattCurrent))
batt_current_avg_id == InternString(ConstructorPool, View(kBattCurrentAvg))
screen_state_id == InternString(ConstructorPool, View(kScreenState))
device_state_id == InternString(ConstructorPool, View(kDeviceState))

----------------------------------------------------------------------------
(* ParseAndroidLogStats                                                    *)

StatsPayloads ==
  [num_failed : Opt(1..MaxStatValue), num_skipped : Opt(1..MaxStatValue),
   num_total : Opt(1..MaxStatValue)]

\* A variant that accumulates instead of overwriting.
LogStatsAdd(st, evt) ==
  LET s1 == IF evt.num_failed.has
            THEN SetStats(st, "android_log_num_failed",
                          st["android_log_num_failed"] + evt.num_failed.val)
            ELSE st
      s2 == IF evt.num_skipped.has
            THEN SetStats(s1, "android_log_num_skipped", evt.num_skipped.val)
            ELSE s1
  IN  IF evt.num_total.has
      THEN SetStats(s2, "android_log_num_total", evt.num_total.val)
      ELSE s2

\* The stats after ParseAndroidLogStats(evt).
LogStats(st, evt) ==
  LET s1 == IF evt.num_failed.has
            THEN SetStats(st, "android_log_num_failed", evt.num_failed.val)
            ELSE st
      s2 == IF evt.num_skipped.has
            THEN SetStats(s1, "android_log_num_skipped", evt.num_skipped.val)
            ELSE s1
  IN  IF evt.num_total.has
      THEN SetStats(s2, "android_log_num_total", evt.num_total.val)
      ELSE s2

ParseAndroidLogStats(evt) ==
  /\ packets' = packets + 1
  /\ stats' = LogStats(stats, evt)
  /\ last' = [op |-> "log_stats", ts |-> 0, evt |-> evt]
  /\ UNCHANGED <<string_pool, tracks, counter_table, power_rail_tracks,
                 seen_packages, package_list_table, game_table,
                 android_log_table, threads, clock>>

----------------------------------------------------------------------------
(* ParseBatteryCounters                                                    *)

\* static_cast<double> of an integer field: exact below 2^53 in magnitude,
\* which covers every value the model draws.
StaticCastDouble(v) == v

\* InternGlobalCounterTrack(name_id) followed by PushCounter(ts, value, track)
\* on the context c = (trk, tbl).
PushOnGlobalTrack(c, ts, value, name_id) ==
  [trk |-> TracksAfter(c.trk, name_id),
   tbl |-> PushCounter(c.tbl, ts, value,
                       InternGlobalCounterTrack(c.trk, name_id))]

BatteryPayloads ==
  [charge_counter_uah : Opt({3000}), capacity_percent : Opt({80}),
   current_ua : Opt({-50}), current_avg_ua : Opt({-40, 0})]

CallTimestamps == {10, 20}

\* A variant that pushes capacity_percent without its presence check.
BatteryCountersNoCheck(c, ts, evt) ==
  LET c1 == IF evt.charge_counter_uah.has
            THEN PushOnGlobalTrack(c, ts,
                   StaticCastDouble(Get(evt.charge_counter_uah)),
                   batt_charge_id)
            ELSE c
      c2 == PushOnGlobalTrack(c1, ts,
                   StaticCastDouble(Get(evt.capacity_percent)),
                   batt_capacity_id)
      c3 == IF evt.current_ua.has
            THEN PushOnGlobalTrack(c2, ts,
                   StaticCastDouble(Get(evt.current_ua)), batt_current_id)
            ELSE c2
  IN  IF evt.current_avg_ua.has
      THEN PushOnGlobalTrack(c3, ts,
             StaticCastDouble(Get(evt.current_avg_ua)), batt_current_avg_id)
      ELSE c3

\* The registry and counter table after ParseBatteryCounters(ts, evt).
BatteryCounters(c, ts, evt) ==
  LET c1 == IF evt.charge_counter_uah.has
            THEN PushOnGlobalTrack(c, ts,
                   StaticCastDouble(Get(evt.charge_counter_uah)),
                   batt_charge_id)
            ELSE c
      c2 == IF evt.capacity_percent.has
            THEN PushOnGlobalTrack(c1, ts,
                   StaticCastDouble(Get(evt.capacity_percent)),
                   batt_capacity_id)
            ELSE c1
      c3 == IF evt.current_ua.has
            THEN PushOnGlobalTrack(c2, ts,
                   StaticCastDouble(Get(evt.current_ua)), batt_current_id)
            ELSE c2
  IN  IF evt.current_avg_ua.has
      THEN PushOnGlobalTrack(c3, ts,
             StaticCastDouble(Get(evt.current_avg_ua)), batt_current_avg_id)
      ELSE c3

ParseBatteryCounters(ts, evt) ==
  /\ packets' = packets + 1
  /\ LET c == BatteryCounters([trk |-> tracks, tbl |-> counter_table], ts, evt)
     IN  /\ tracks' = c.trk
         /\ counter_table' = c.tbl
  /\ last' = [op |-> "battery", ts |-> ts, evt |-> evt]
  /\ UNCHANGED <<string_pool, stats, power_rail_tracks, seen_packages,
                 package_list_table, game_table, android_log_table, threads,
                 clock>>

----------------------------------------------------------------------------
(* ParsePowerRails                                                         *)

kNsPerMs == 1000000

\* The tokenizer forges one EnergyData per packet whose timestamp_ms is the
\* packet's timestamp (the DCHECKs of the routine).
PowerRailCalls ==
  { [ts |-> t,
     evt |-> [index |-> Present(i), timestamp_ms |-> Present(t \div kNsPerMs),
              energy |-> Present(e)]] :
    t \in {kNsPerMs, 2 * kNsPerMs}, i \in 0..2, e \in {5, 9} }

\* AndroidProbesTracker::GetPowerRailTrack
GetPowerRailTrack(rails, index) ==
  IF index \in DOMAIN rails THEN Present(rails[index]) ELSE Absent

\* A variant that fabricates a track for an unbound index.
PowerRailsFabricate(c, ts, evt) ==
  LET opt_track == GetPowerRailTrack(c.rails, Get(evt.index))
  IN  IF opt_track.has
      THEN [c EXCEPT !.tbl = PushCounter(c.tbl, ts,
                                StaticCastDouble(Get(evt.energy)),
                                opt_track.val)]
      ELSE [c EXCEPT !.tbl = PushCounter(c.tbl, ts,
                                StaticCastDouble(Get(evt.energy)),
                                Len(c.trk) + 1),
                     !.trk = Append(c.trk, 0),
                     !.rails = [i \in DOMAIN c.rails \cup {Get(evt.index)} |->
                                  IF i \in DOMAIN c.rails THEN c.rails[i]
                                  ELSE Len(c.trk) + 1]]

\* The context c = (trk, tbl, rails, st) after ParsePowerRails(ts, evt).
PowerRails(c, ts, evt) ==
  LET opt_track == GetPowerRailTrack(c.rails, Get(evt.index))
  IN  IF opt_track.has
      THEN [c EXCEPT !.tbl = PushCounter(c.tbl, ts,
                                StaticCastDouble(Get(evt.energy)),
                                opt_track.val)]
      ELSE [c EXCEPT !.st = IncrementStats(c.st, "power_rail_unknown_index")]

ParsePowerRails(ts, evt) ==
  /\ packets' = packets + 1
  /\ LET c == PowerRails([trk |-> tracks, tbl |-> counter_table,
                          rails |-> power_rail_tracks, st |-> stats], ts, evt)
     IN  /\ tracks' = c.trk
         /\ counter_table' = c.tbl
         /\ power_rail_tracks' = c.rails
         /\ stats' = c.st
  /\ last' = [op |-> "power_rails", ts |-> ts, evt |-> evt]
  /\ UNCHANGED <<string_pool, seen_packages, package_list_table, game_table,
                 android_log_table, threads, clock>>

----------------------------------------------------------------------------
(* ParseInitialDisplayState                                                *)

DisplayPayloads == [display_state : Opt({0, 1, 2})]

\* A variant that samples only a present display_state.
InitialDisplayStateChecked(c, ts, evt) ==
  IF evt.display_state.has
  THEN PushOnGlobalTrack(c, ts, Get(evt.display_state), screen_state_id)
  ELSE c

\* The registry and counter table after ParseInitialDisplayState(ts, evt).
InitialDisplayState(c, ts, evt) ==
  PushOnGlobalTrack(c, ts, Get(evt.display_state), screen_state_id)

ParseInitialDisplayState(ts, evt) ==
  /\ packets' = packets + 1
  /\ LET c == InitialDisplayState([trk |-> tracks, tbl |-> counter_table],
                                  ts, evt)
     IN  /\ tracks' = c.trk
         /\ counter_table' = c.tbl
  /\ last' = [op |-> "display_state", ts |-> ts, evt |-> evt]
  /\ UNCHANGED <<string_pool, stats, power_rail_tracks, seen_packages,
                 package_list_table, game_table, android_log_table, threads,
                 clock>>

----------------------------------------------------------------------------
(* ParseAndroidPackagesList                                                *)

AbsentStr == [has |-> FALSE, val |-> <<>>]

\* A decoder string field as a StringView: absent is the null view.
StrView(f) == IF f.has THEN View(f.val) ELSE NullView

\* StringView::ToStdString
ToStdString(v) == v.str

BoolToInt(b) == IF b THEN 1 ELSE 0

kPkgX == <<"c","o","m",".","x">>
kPkgY == <<"c","o","m",".","y">>

PackageInfos ==
  { [name |-> Present(kPkgX), uid |-> Present(10001),
     debuggable |-> Present(FALSE), profileable_from_shell |-> Present(FALSE),
     version_code |-> Present(1)],
    [name |-> Present(kPkgX), uid |-> Present(10002),
     debuggable |-> Present(TRUE), profileable_from_shell |-> Present(TRUE),
     version_code |-> Present(2)],
    [name |-> Present(kPkgY), uid |-> Present(10003),
     debuggable |-> Present(TRUE), profileable_from_shell |-> Present(FALSE),
     version_code |-> Present(3)] }

SeqsUpTo(S, n) == UNION {[1..k -> S] : k \in 0..n}

PackagesLists ==
  [read_error : {Absent, Present(TRUE)}, parse_error : {Absent},
   packages : SeqsUpTo(PackageInfos, MaxPkgs)]

\* AndroidProbesTracker::ShouldInsertPackage
ShouldInsertPackage(seen, name) == name \notin seen

\* AndroidProbesTracker::InsertedPackage
InsertedPackage(seen, name) == seen \cup {name}

PackageRow(pool, pkg) ==
  [name |-> InternString(pool, StrView(pkg.name)),
   uid |-> Get(pkg.uid),
   debuggable |-> pkg.debuggable.has /\ pkg.debuggable.val,
   profileable_from_shell |->
     pkg.profileable_from_shell.has /\ pkg.profileable_from_shell.val,
   version_code |-> Get(pkg.version_code)]

\* A variant of the loop body that never marks the name as inserted.
PackageEntryNoMark(c, pkg) ==
  LET pkg_name == ToStdString(StrView(pkg.name))
  IN  IF ~ShouldInsertPackage(c.seen, pkg_name) THEN c
      ELSE [pool |-> PoolAfter(c.pool, StrView(pkg.name)),
            tbl |-> Append(c.tbl, PackageRow(c.pool, pkg)),
            seen |-> c.seen]

\* One iteration of the loop over pkg_list.packages() on c = (pool, tbl, seen).
PackageEntry(c, pkg) ==
  LET pkg_name == ToStdString(StrView(pkg.name))
  IN  IF ~ShouldInsertPackage(c.seen, pkg_name) THEN c
      ELSE [pool |-> PoolAfter(c.pool, StrView(pkg.name)),
            tbl |-> Append(c.tbl, PackageRow(c.pool, pkg)),
            seen |-> InsertedPackage(c.seen, pkg_name)]

RECURSIVE PackagesLoop(_, _)
PackagesLoop(c, pkgs) ==
  IF pkgs = <<>> THEN c
  ELSE PackagesLoop(PackageEntry(c, Head(pkgs)), Tail(pkgs))

ParseAndroidPackagesList(evt) ==
  /\ packets' = packets + 1
  /\ stats' = SetStats(SetStats(stats, "packages_list_has_read_errors",
                                BoolToInt(evt.read_error.has
                                          /\ evt.read_error.val)),
                       "packages_list_has_parse_errors",
                       BoolToInt(evt.parse_error.has /\ evt.parse_error.val))
  /\ LET c == PackagesLoop([pool |-> string_pool, tbl |-> package_list_table,
                            seen |-> seen_packages], evt.packages)
     IN  /\ string_pool' = c.pool
         /\ package_list_table' = c.tbl
         /\ seen_packages' = c.seen
  /\ last' = [op |-> "packages_list", ts |-> 0, evt |-> evt]
  /\ UNCHANGED <<tracks, counter_table, power_rail_tracks, game_table,
                 android_log_table, threads, clock>>

----------------------------------------------------------------------------
(* ParseAndroidGameIntervention                                            *)

kGameModeStandard == 1
kGameModePerformance == 2
kGameModeBattery == 3

kStd60 == [mode |-> Present(1), resolution_downscale |-> Present(1),
           use_angle |-> Present(TRUE), fps |-> Present(60)]
kStd30 == [mode |-> Present(1), resolution_downscale |-> Present(2),
           use_angle |-> Absent, fps |-> Present(30)]
kPerf90 == [mode |-> Present(2), resolution_downscale |-> Absent,
            use_angle |-> Present(TRUE), fps |-> Present(90)]
kBatt45 == [mode |-> Present(3), resolution_downscale |-> Present(3),
            use_angle |-> Present(FALSE), fps |-> Present(45)]
kMode4 == [mode |-> Present(4), resolution_downscale |-> Present(5),
           use_angle |-> Present(TRUE), fps |-> Present(120)]
kModeUnset == [mode |-> Absent, resolution_downscale |-> Present(7),
               use_angle |-> Present(TRUE), fps |-> Present(15)]

GameModeInfos == {kStd60, kStd30, kPerf90, kBatt45, kMode4}

GamePackageInfos ==
  [name : {Present(kPkgX)}, uid : {Present(10001)},
   current_mode : {Present(2)},
   game_mode_info : SeqsUpTo(GameModeInfos, MaxModes)]

\* A second entry of the same packet: no sub-record, or one without a mode.
TrailingGamePackages ==
  { [name |-> Present(kPkgY), uid |-> Present(10003), current_mode |-> Absent,
     game_mode_info |-> <<>>],
    [name |-> Present(kPkgY), uid |-> Present(10003),
     current_mode |-> Present(3), game_mode_info |-> <<kModeUnset>>] }

GameInterventionLists ==
  {[read_error |-> Absent, parse_error |-> Present(TRUE),
    game_packages |-> <<>>]}
  \cup {[read_error |-> Absent, parse_error |-> Absent,
         game_packages |-> <<p>>] : p \in GamePackageInfos}
  \cup {[read_error |-> Present(TRUE), parse_error |-> Absent,
         game_packages |-> <<p, q>>] :
          p \in {g \in GamePackageInfos : Len(g.game_mode_info) <= 1},
          q \in TrailingGamePackages}

\* The accumulators of one mode: is_<mode>_mode and the three optionals.
NoMode == [is_mode |-> FALSE, downscale |-> Absent, angle |-> Absent,
           fps |-> Absent]

ModeOf(game_mode) ==
  [is_mode |-> TRUE,
   downscale |-> Present(StaticCastDouble(Get(game_mode.resolution_downscale))),
   angle |-> Present(BoolToInt(game_mode.use_angle.has
                               /\ game_mode.use_angle.val)),
   fps |-> Present(StaticCastDouble(Get(game_mode.fps)))]

\* A variant in which the first sub-record of a mode wins.
GameModeFirstWins(acc, game_mode) ==
  LET mode_num == Get(game_mode.mode)
  IN  IF mode_num = kGameModeStandard
      THEN IF acc.standard.is_mode THEN acc
           ELSE [acc EXCEPT !.standard = ModeOf(game_mode)]
      ELSE IF mode_num = kGameModePerformance
      THEN [acc EXCEPT !.perf = ModeOf(game_mode)]
      ELSE IF mode_num = kGameModeBattery
      THEN [acc EXCEPT !.battery = ModeOf(game_mode)]
      ELSE acc

\* One iteration of the loop over game_pkg.game_mode_info().
GameMode(acc, game_mode) ==
  LET mode_num == Get(game_mode.mode)
  IN  IF mode_num = kGameModeStandard
      THEN [acc EXCEPT !.standard = ModeOf(game_mode)]
      ELSE IF mode_num = kGameModePerformance
      THEN [acc EXCEPT !.perf = ModeOf(game_mode)]
      ELSE IF mode_num = kGameModeBattery
      THEN [acc EXCEPT !.battery = ModeOf(game_mode)]
      ELSE acc

RECURSIVE GameModesLoop(_, _)
GameModesLoop(acc, modes) ==
  IF modes = <<>> THEN acc
  ELSE GameModesLoop(GameMode(acc, Head(modes)), Tail(modes))

\* One iteration of the loop over game_packages() on c = (pool, tbl).
GamePackage(c, game_pkg) ==
  LET acc == GameModesLoop([standard |-> NoMode, perf |-> NoMode,
                            battery |-> NoMode], game_pkg.game_mode_info)
  IN  [pool |-> PoolAfter(c.pool, StrView(game_pkg.name)),
       tbl |-> Append(c.tbl,
                 [name |-> InternString(c.pool, StrView(game_pkg.name)),
                  uid |-> Get(game_pkg.uid),
                  cur_mode |-> Get(game_pkg.current_mode),
                  standard |-> acc.standard,
                  perf |-> acc.perf,
                  battery |-> acc.battery])]

RECURSIVE GamePackagesLoop(_, _)
GamePackagesLoop(c, pkgs) ==
  IF pkgs = <<>> THEN c
  ELSE GamePackagesLoop(GamePackage(c, Head(pkgs)), Tail(pkgs))

ParseAndroidGameIntervention(evt) ==
  /\ packets' = packets + 1
  /\ stats' = SetStats(SetStats(stats, "game_intervention_has_read_errors",
                                BoolToInt(evt.read_error.has
                                          /\ evt.read_error.val)),
                       "game_intervention_has_parse_errors",
                       BoolToInt(evt.parse_error.has /\ evt.parse_error.val))
  /\ LET c == GamePackagesLoop([pool |-> string_pool, tbl |-> game_table],
                               evt.game_packages)
     IN  /\ string_pool' = c.pool
         /\ game_table' = c.tbl
  /\ last' = [op |-> "game_intervention", ts |-> 0, evt |-> evt]
  /\ UNCHANGED <<tracks, counter_table, power_rail_tracks, seen_packages,
                 package_list_table, android_log_table, threads, clock>>

----------------------------------------------------------------------------
(* ParseAndroidLogEvent: the argument formatter.                           *)

kArgMsgSize == 4096
PRIO_INFO == 4

Digits == <<"0", "1", "2", "3", "4", "5", "6", "7", "8", "9">>

RECURSIVE NatToStr(_)
NatToStr(n) ==
  IF n < 10 THEN <<Digits[n + 1]>>
  ELSE NatToStr(n \div 10) \o <<Digits[(n % 10) + 1]>>

\* printf "%" PRId64
FormatInt64(v) == IF v < 0 THEN <<"-">> \o NatToStr(-v) ELSE NatToStr(v)

\* printf "%f" of a value given in quarters (exact in a float): sign, integer
\* part, point, six decimals.
FormatDouble(q) ==
  LET a == IF q < 0 THEN -q ELSE q
      frac == (a % 4) * 250000
      dec == NatToStr(frac)
  IN  (IF q < 0 THEN <<"-">> ELSE <<>>) \o NatToStr(a \div 4) \o <<".">>
      \o [i \in 1..(6 - Len(dec)) |-> "0"] \o dec

\* base::SprintfTrunc(dst, dst_size, fmt, ...): the count it returns for a
\* formatted text src; that many characters and a terminator are stored.
SprintfTrunc(dst_size, src) ==
  IF dst_size = 0 THEN 0
  ELSE IF Len(src) < dst_size THEN Len(src) ELSE dst_size - 1

\* The arg_avail lambda; its PERFETTO_CHECK is CheckHolds.
CheckHolds(used) == used <= kArgMsgSize
ArgAvail(used) == kArgMsgSize - used

\* The formatter state: buf is the text of arg_msg up to its terminator,
\* used is arg_str - arg_msg, writes records every SprintfTrunc call.
FormatStart == [buf |-> <<>>, used |-> 0, writes |-> <<>>,
                check_failed |-> FALSE]

\* A variant that advances by the untruncated length, as snprintf returns it.
WriteFragmentUntruncated(f, src) ==
  IF f.check_failed \/ ~CheckHolds(f.used)
  THEN [f EXCEPT !.check_failed = TRUE]
  ELSE LET avail == ArgAvail(f.used)
           n == SprintfTrunc(avail, src)
       IN  [buf |-> f.buf \o SubSeq(src, 1, n),
            used |-> f.used + Len(src),
            writes |-> Append(f.writes,
                        [avail |-> avail, len |-> Len(src), n |-> Len(src),
                         used |-> f.used + Len(src)]),
            check_failed |-> FALSE]

\* arg_str += base::SprintfTrunc(arg_str, arg_avail(), fmt, ...), where the
\* format and its arguments expand to src.
WriteFragment(f, src) ==
  IF f.check_failed \/ ~CheckHolds(f.used)
  THEN [f EXCEPT !.check_failed = TRUE]
  ELSE LET avail == ArgAvail(f.used)
           n == SprintfTrunc(avail, src)
       IN  [buf |-> SubSeq(f.buf, 1, f.used) \o SubSeq(src, 1, n),
            used |-> f.used + n,
            writes |-> Append(f.writes,
                        [avail |-> avail, len |-> Len(src), n |-> n,
                         used |-> f.used + n]),
            check_failed |-> FALSE]

\* " %.*s=" of the name
NameFragment(arg) == <<" ">> \o arg.name.val \o <<"=">>

\* One iteration of the loop over evt.args().
FormatArg(f, arg) ==
  IF ~arg.name.has THEN f
  ELSE LET f1 == WriteFragment(f, NameFragment(arg))
       IN  IF arg.string_value.has
           THEN WriteFragment(f1, <<"\"">> \o arg.string_value.val \o <<"\"">>)
           ELSE IF arg.int_value.has
           THEN WriteFragment(f1, FormatInt64(arg.int_value.val))
           ELSE IF arg.float_value.has
           THEN WriteFragment(f1, FormatDouble(arg.float_value.val))
           ELSE f1

RECURSIVE FormatArgs(_, _)
FormatArgs(f, args) ==
  IF args = <<>> THEN f
  ELSE FormatArgs(FormatArg(f, Head(args)), Tail(args))

----------------------------------------------------------------------------
(* ParseAndroidLogEvent                                                    *)

\* static_cast<uint8_t>
StaticCastUint8(v) == v % 256

\* ProcessTracker::UpdateThread: the thread table after the call.
ThreadsAfter(thr, tid, pid) ==
  IF [tid |-> tid, pid |-> pid] \in Range(thr) THEN thr
  ELSE Append(thr, [tid |-> tid, pid |-> pid])

\* ProcessTracker::UpdateThread: the utid of (tid, pid).
UpdateThread(thr, tid, pid) ==
  IF [tid |-> tid, pid |-> pid] \in Range(thr)
  THEN CHOOSE i \in 1..Len(thr) : thr[i] = [tid |-> tid, pid |-> pid]
  ELSE Len(thr) + 1

\* ClockTracker::ToTraceTime(BUILTIN_CLOCK_REALTIME, ts)
ToTraceTime(clk, ts) == IF clk.known THEN Present(ts + clk.offset) ELSE Absent

\* A variant that interns the buffer from its first character.
SynthesizedMessageNoSkip(f) == View(f.buf)

\* &arg_msg[1] as a string: the buffer's text without its first character.
SynthesizedMessage(f) == View(SubSeq(f.buf, 2, Len(f.buf)))

\* The context c = (pool, thr, tbl) after ParseAndroidLogEvent(evt), with the
\* formatter's final state.
LogEvent(c, clk, evt) ==
  LET ts == Get(evt.timestamp)
      pid == Get(evt.pid)
      tid == Get(evt.tid)
      prio0 == StaticCastUint8(Get(evt.prio))
      tag_id == InternString(c.pool, StrView(evt.tag))
      pool1 == PoolAfter(c.pool, StrView(evt.tag))
      msg_id0 == InternString(pool1, StrView(evt.message))
      pool2 == PoolAfter(pool1, StrView(evt.message))
      f == FormatArgs(FormatStart, evt.args)
      prio == IF prio0 = 0 THEN PRIO_INFO ELSE prio0
      msg_id == IF f.used # 0 THEN InternString(pool2, SynthesizedMessage(f))
                ELSE msg_id0
      pool3 == IF f.used # 0 THEN PoolAfter(pool2, SynthesizedMessage(f))
               ELSE pool2
      utid == IF tid # 0 THEN UpdateThread(c.thr, tid, pid) ELSE 0
      thr1 == IF tid # 0 THEN ThreadsAfter(c.thr, tid, pid) ELSE c.thr
      opt_trace_time == ToTraceTime(clk, ts)
  IN  IF f.check_failed
      THEN [pool |-> pool2, thr |-> c.thr, tbl |-> c.tbl, fmt |-> f]
      ELSE [pool |-> pool3, thr |-> thr1,
            tbl |-> IF ~opt_trace_time.has THEN c.tbl
                    ELSE Append(c.tbl,
                           [ts |-> opt_trace_time.val, utid |-> utid,
                            prio |-> prio, tag |-> tag_id, msg |-> msg_id]),
            fmt |-> f]

ParseAndroidLogEvent(evt) ==
  /\ packets' = packets + 1
  /\ LET c == LogEvent([pool |-> string_pool, thr |-> threads,
                        tbl |-> android_log_table], clock, evt)
     IN  /\ string_pool' = c.pool
         /\ threads' = c.thr
         /\ android_log_table' = c.tbl
         /\ last' = [op |-> "log_event", ts |-> 0, evt |-> evt, fmt |-> c.fmt]
  /\ UNCHANGED <<stats, tracks, counter_table, power_rail_tracks,
                 seen_packages, package_list_table, game_table, clock>>

Long(n, ch) == [i \in 1..n |-> ch]

\* The arguments of the formatter runs: unnamed, named without a value, the
\* three value variants, a long string value, a name longer than arg_msg and
\* an empty name with an empty string.
FmtArgs ==
  { [name |-> AbsentStr, string_value |-> AbsentStr, int_value |-> Present(7),
     float_value |-> Absent],
    [name |-> Present(<<"k">>), string_value |-> AbsentStr,
     int_value |-> Absent, float_value |-> Absent],
    [name |-> Present(<<"n">>), string_value |-> AbsentStr,
     int_value |-> Present(-120), float_value |-> Present(2)],
    [name |-> Present(<<"f">>), string_value |-> AbsentStr,
     int_value |-> Absent, float_value |-> Present(-10)],
    [name |-> Present(<<"s">>), string_value |-> Present(Long(LongLen, "x")),
     int_value |-> Present(1), float_value |-> Absent],
    [name |-> Present(Long(HugeLen, "y")), string_value |-> Present(<<"v">>),
     int_value |-> Absent, float_value |-> Absent],
    [name |-> Present(<<>>), string_value |-> Present(<<>>),
     int_value |-> Absent, float_value |-> Absent] }

FmtEvents ==
  [timestamp : {Present(5)}, pid : {Present(3)}, tid : {Absent},
   prio : {Present(6)}, tag : {AbsentStr},
   message : {AbsentStr, Present(<<"h", "i">>)},
   args : SeqsUpTo(FmtArgs, MaxArgs)]

LogEvents ==
  [timestamp : {Present(5)}, pid : {Present(3)}, tid : {Absent, Present(7)},
   prio : {Absent, Present(0), Present(3), Present(255), Present(256),
           Present(257)},
   tag : {AbsentStr, Present(<<"T">>)},
   message : {AbsentStr, Present(<<"h", "i">>)},
   args : {<<>>,
           <<[name |-> Present(<<"n">>), string_value |-> AbsentStr,
              int_value |-> Present(1), float_value |-> Absent]>>}]

----------------------------------------------------------------------------
(* Initial state: a constructed parser on a fresh trace context.  The      *)
(* power-rail bindings and the clock path were set up by earlier phases.   *)

kRail0 == <<"p","o","w","e","r",".","r","0","_","u","w","s">>
kRail2 == <<"p","o","w","e","r",".","r","2","_","u","w","s">>

\* Tokenizer: each rail descriptor interns its name, interns the counter
\* track of that name and binds its index to the track.  Rails 0 and 2 are
\* described; index 1 is not.
RailPool == ConstructorPool \o <<kRail0, kRail2>>
RailTracks ==
  <<InternString(RailPool, View(kRail0)), InternString(RailPool, View(kRail2))>>
RailBindings ==
  [i \in {0, 2} |->
     InternGlobalCounterTrack(RailTracks,
       InternString(RailPool, View(IF i = 0 THEN kRail0 ELSE kRail2)))]

ClockPaths == {[known |-> FALSE, offset |-> 0], [known |-> TRUE, offset |-> 100]}

Init ==
  /\ string_pool = RailPool
  /\ tracks = RailTracks
  /\ power_rail_tracks = RailBindings
  /\ stats = [k \in StatKeys |-> 0]
  /\ counter_table = <<>>
  /\ seen_packages = {}
  /\ package_list_table = <<>>
  /\ game_table = <<>>
  /\ android_log_table = <<>>
  /\ threads = <<>>
  /\ clock \in ClockPaths
  /\ packets = 0
  /\ last = [op |-> "none", ts |-> 0, evt |-> Absent]

----------------------------------------------------------------------------
(* Specifications: one per normalizer, fed by the host loop.               *)

NextStats ==
  /\ packets < MaxPackets
  /\ \E evt \in StatsPayloads : ParseAndroidLogStats(evt)

SpecStats == Init /\ [][NextStats]_vars

NextBattery ==
  /\ packets < MaxPackets
  /\ \E ts \in CallTimestamps, evt \in BatteryPayloads :
       ParseBatteryCounters(ts, evt)

SpecBattery == Init /\ [][NextBattery]_vars

NextPower ==
  /\ packets < MaxPackets
  /\ \E call \in PowerRailCalls : ParsePowerRails(call.ts, call.evt)

SpecPower == Init /\ [][NextPower]_vars

NextDisplay ==
  /\ packets < MaxPackets
  /\ \E ts \in CallTimestamps, evt \in DisplayPayloads :
       ParseInitialDisplayState(ts, evt)

SpecDisplay == Init /\ [][NextDisplay]_vars

NextPackages ==
  /\ packets < MaxPackets
  /\ \E evt \in PackagesLists : ParseAndroidPackagesList(evt)

SpecPackages == Init /\ [][NextPackages]_vars

NextGame ==
  /\ packets < MaxGamePackets
  /\ \E evt \in GameInterventionLists : ParseAndroidGameIntervention(evt)

SpecGame == Init /\ [][NextGame]_vars

NextLog ==
  /\ packets < MaxLogPackets
  /\ \E evt \in LogEvents : ParseAndroidLogEvent(evt)

SpecLog == Init /\ [][NextLog]_vars

\* The formatter's buffer is local to one ParseAndroidLogEvent call: one event
\* is drawn and parsed on the fresh context.
NextFmt ==
  /\ packets = 0
  /\ \E evt \in FmtEvents : ParseAndroidLogEvent(evt)

SpecFmt == Init /\ [][NextFmt]_vars

----------------------------------------------------------------------------
(* Helpers of the properties.                                              *)

NoDuplicates(s) == \A i, j \in 1..Len(s) : s[i] = s[j] => i = j
IsPrefix(s, t) == Len(s) <= Len(t) /\ SubSeq(t, 1, Len(s)) = s
Suffix(s, t) == SubSeq(t, Len(s) + 1, Len(t))
TrackNamed(trk, name_id) == CHOOSE i \in 1..Len(trk) : trk[i] = name_id
Count(s, x) == Cardinality({i \in 1..Len(s) : s[i] = x})

LogStatKeys == {"android_log_num_failed", "android_log_num_skipped",
                "android_log_num_total"}

BatteryFields == {"charge_counter_uah", "capacity_percent", "current_ua",
                  "current_avg_ua"}

BatteryTrackName(f) ==
  CASE f = "charge_counter_uah" -> batt_charge_id
    [] f = "capacity_percent" -> batt_capacity_id
    [] f = "current_ua" -> batt_current_id
    [] f = "current_avg_ua" -> batt_current_avg_id

RowsUnchanged ==
  UNCHANGED <<package_list_table, game_table, android_log_table,
              counter_table>>

PkgName(pkg) == IF pkg.name.has THEN pkg.name.val ELSE <<>>

TableNames(pool, tbl) == {GetString(pool, tbl[i].name) : i \in 1..Len(tbl)}

\* The accumulator a mode's sub-records fold to: the last one wins.
LastOfMode(infos, m) ==
  LET at == {i \in 1..Len(infos) : infos[i].mode.has /\ infos[i].mode.val = m}
  IN  IF at = {}
      THEN [is_mode |-> FALSE, downscale |-> Absent, angle |-> Absent,
            fps |-> Absent]
      ELSE LET g == infos[CHOOSE i \in at : \A j \in at : j <= i]
           IN  [is_mode |-> TRUE,
                downscale |-> Present(IF g.resolution_downscale.has
                                      THEN g.resolution_downscale.val ELSE 0),
                angle |-> Present(IF g.use_angle.has /\ g.use_angle.val
                                  THEN 1 ELSE 0),
                fps |-> Present(IF g.fps.has THEN g.fps.val ELSE 0)]

----------------------------------------------------------------------------
(* C2: after ParseAndroidPackagesList the package table keeps its old rows *)
(* unchanged and gains one row per name it did not hold, taken from the    *)
(* first entry of the packet with that name; no name has two rows.  By     *)
(* induction every name has at most one row, that of its first occurrence. *)
C2_PackageDedup ==
  [][last'.op = "packages_list" =>
       LET pkgs == last'.evt.packages
           known == TableNames(string_pool, package_list_table)
           first == {i \in 1..Len(pkgs) :
                       /\ PkgName(pkgs[i]) \notin known
                       /\ \A j \in 1..(i - 1) :
                            PkgName(pkgs[j]) # PkgName(pkgs[i])}
           new == Suffix(package_list_table, package_list_table')
       IN  /\ IsPrefix(package_list_table, package_list_table')
           /\ IsPrefix(string_pool, string_pool')
           /\ Len(new) = Cardinality(first)
           /\ \A i \in first :
                \E k \in 1..Len(new) :
                  /\ GetString(string_pool', new[k].name) = PkgName(pkgs[i])
                  /\ new[k].uid = pkgs[i].uid.val
                  /\ new[k].debuggable = pkgs[i].debuggable.val
                  /\ new[k].profileable_from_shell =
                       pkgs[i].profileable_from_shell.val
                  /\ new[k].version_code = pkgs[i].version_code.val
           /\ \A m, n \in 1..Len(package_list_table') :
                package_list_table'[m].name = package_list_table'[n].name
                  => m = n]_vars

\* com.x was inserted with uid 10001 by the first packet; the second packet
\* listed com.x twice, first with uid 10002, and changed nothing.
C2_Witness ==
  /\ last.op = "packages_list"
  /\ packets = 2
  /\ Len(last.evt.packages) = 2
  /\ PkgName(last.evt.packages[1]) = kPkgX
  /\ PkgName(last.evt.packages[2]) = kPkgX
  /\ last.evt.packages[1].uid.val = 10002
  /\ Len(package_list_table) = 1
  /\ GetString(string_pool, package_list_table[1].name) = kPkgX
  /\ package_list_table[1].uid = 10001
  /\ package_list_table[1].version_code = 1

----------------------------------------------------------------------------
(* C3: ParseAndroidGameIntervention appends exactly one row per package    *)
(* entry, in order; for each mode 1, 2, 3 the row holds (true, downscale,  *)
(* angle, fps) of the last sub-record with that mode number, or (false,    *)
(* absent, absent, absent) when there is none; other mode numbers change   *)
(* nothing, and only the two list-level flags are written to the stats.    *)
C3_GameModeFold ==
  [][last'.op = "game_intervention" =>
       LET pkgs == last'.evt.game_packages
           new == Suffix(game_table, game_table')
       IN  /\ IsPrefix(game_table, game_table')
           /\ Len(new) = Len(pkgs)
           /\ \A i \in 1..Len(pkgs) :
                /\ GetString(string_pool', new[i].name) = PkgName(pkgs[i])
                /\ new[i].standard = LastOfMode(pkgs[i].game_mode_info, 1)
                /\ new[i].perf = LastOfMode(pkgs[i].game_mode_info, 2)
                /\ new[i].battery = LastOfMode(pkgs[i].game_mode_info, 3)
           /\ \A k \in StatKeys \ {"game_intervention_has_read_errors",
                                   "game_intervention_has_parse_errors"} :
                stats'[k] = stats[k]]_vars

\* standard(fps 60), performance(fps 90), standard(fps 30) folded into one
\* row: standard fps 30, performance fps 90, battery absent.
C3_Witness ==
  /\ last.op = "game_intervention"
  /\ Len(last.evt.game_packages) = 1
  /\ last.evt.game_packages[1].game_mode_info = <<kStd60, kPerf90, kStd30>>
  /\ Len(game_table) = 1
  /\ game_table[1].standard.is_mode
  /\ game_table[1].standard.fps = Present(30)
  /\ game_table[1].standard.downscale = Present(2)
  /\ game_table[1].standard.angle = Present(0)
  /\ game_table[1].perf.fps = Present(90)
  /\ ~game_table[1].battery.is_mode
  /\ game_table[1].battery.fps = Absent

----------------------------------------------------------------------------
(* C5: a ParsePowerRails call on an unbound rail index appends no counter  *)
(* sample, adds exactly 1 to power_rail_unknown_index and leaves the       *)
(* binding map and the track registry unchanged; a call on a bound index   *)
(* appends exactly one sample (call timestamp, energy) on the bound track  *)
(* and leaves the stats unchanged.                                         *)
C5_PowerRailLookup ==
  [][last'.op = "power_rails" =>
       LET e == last'.evt
           idx == e.index.val
       IN  /\ power_rail_tracks' = power_rail_tracks
           /\ tracks' = tracks
           /\ idx \notin DOMAIN power_rail_tracks =>
                /\ counter_table' = counter_table
                /\ stats' = [stats EXCEPT !["power_rail_unknown_index"] = @ + 1]
           /\ idx \in DOMAIN power_rail_tracks =>
                /\ counter_table' =
                     Append(counter_table,
                            [ts |-> last'.ts, value |-> e.energy.val,
                             track |-> power_rail_tracks[idx]])
                /\ stats' = stats]_vars

\* One bound reading was sampled, then an unbound one was dropped and counted.
C5_Witness ==
  /\ last.op = "power_rails"
  /\ last.evt.index.val \notin DOMAIN power_rail_tracks
  /\ stats["power_rail_unknown_index"] = 1
  /\ Len(counter_table) = 1
  /\ \E i \in DOMAIN power_rail_tracks :
       counter_table[1].track = power_rail_tracks[i]

----------------------------------------------------------------------------
(* C6: ParseBatteryCounters appends exactly one sample per present field   *)
(* (0..4 in all), at the call's timestamp, with the field's value, on the  *)
(* global counter track interned under the field's name, and none for an   *)
(* absent field; a name has one track for the whole trace, so two calls    *)
(* carrying the same field append to the same track.                       *)
C6_BatterySubset ==
  [][last'.op = "battery" =>
       LET e == last'.evt
           new == Suffix(counter_table, counter_table')
           present == {f \in BatteryFields : e[f].has}
       IN  /\ IsPrefix(counter_table, counter_table')
           /\ IsPrefix(tracks, tracks')
           /\ NoDuplicates(tracks')
           /\ Len(new) = Cardinality(present)
           /\ \A f \in present :
                /\ BatteryTrackName(f) \in Range(tracks')
                /\ Count(new, [ts |-> last'.ts, value |-> e[f].val,
                               track |-> TrackNamed(tracks', BatteryTrackName(f))])
                     = 1
           /\ \A f \in BatteryFields \ present :
                \A i \in 1..Len(new) :
                  tracks'[new[i].track] # BatteryTrackName(f)]_vars

\* Two calls carried current_avg_ua; the second carried two fields in all.
C6_Witness ==
  /\ last.op = "battery"
  /\ packets = 2
  /\ Cardinality({f \in BatteryFields : last.evt[f].has}) = 2
  /\ last.evt.current_avg_ua.has
  /\ Len(counter_table) >= 3
  /\ \E i, j \in 1..Len(counter_table) :
       /\ i < j
       /\ counter_table[i].track = counter_table[j].track
       /\ counter_table[i].ts # counter_table[j].ts
       /\ tracks[counter_table[i].track] = batt_current_avg_id

----------------------------------------------------------------------------
----------------------------------------------------------------------------
(* Helpers of the log-event properties.                                    *)

Unresolvable(evt) == ~ToTraceTime(clock, Get(evt.timestamp)).has

RowInserted == Len(android_log_table') = Len(android_log_table) + 1
NewLogRow == android_log_table'[Len(android_log_table')]

ValueText(arg) ==
  IF arg.string_value.has THEN <<"\"">> \o arg.string_value.val \o <<"\"">>
  ELSE IF arg.int_value.has THEN FormatInt64(arg.int_value.val)
  ELSE IF arg.float_value.has THEN FormatDouble(arg.float_value.val)
  ELSE <<>>

RECURSIVE Concatenation(_)
Concatenation(args) ==
  IF args = <<>> THEN <<>>
  ELSE (IF Head(args).name.has
        THEN <<" ">> \o Head(args).name.val \o <<"=">> \o ValueText(Head(args))
        ELSE <<>>) \o Concatenation(Tail(args))

HasNamedArg(evt) == \E i \in 1..Len(evt.args) : evt.args[i].name.has
LiteralMessage(evt) == IF evt.message.has THEN evt.message.val ELSE <<>>
Take(s, n) == SubSeq(s, 1, IF Len(s) < n THEN Len(s) ELSE n)

----------------------------------------------------------------------------
(* C1 as stated: a log event whose timestamp ToTraceTime cannot translate  *)
(* adds no log row, resolves no thread and interns no string.              *)
C1_FullShortCircuit ==
  [][(last'.op = "log_event" /\ Unresolvable(last'.evt)) =>
       /\ android_log_table' = android_log_table
       /\ threads' = threads
       /\ string_pool' = string_pool]_vars

----------------------------------------------------------------------------
(* C4: in every ParseAndroidLogEvent run the PERFETTO_CHECK of arg_avail   *)
(* holds, every SprintfTrunc call gets a capacity in 1..4096 and stores    *)
(* fewer characters than that capacity, the cursor stays in 0..4095 after  *)
(* every write, and the synthesized text is at most 4095 characters long.  *)
C4_CursorInBounds ==
  last.op = "log_event" =>
    /\ ~last.fmt.check_failed
    /\ \A i \in 1..Len(last.fmt.writes) :
         LET w == last.fmt.writes[i]
         IN  /\ w.avail \in 1..kArgMsgSize
             /\ w.n <= w.avail - 1
             /\ w.n <= w.len
             /\ w.used \in 0..(kArgMsgSize - 1)
    /\ last.fmt.used \in 0..(kArgMsgSize - 1)
    /\ Len(last.fmt.buf) = last.fmt.used

\* A name longer than the buffer was cut at 4095 characters and the value
\* write that followed got a capacity of 1 and stored nothing.
C4_Witness ==
  /\ last.op = "log_event"
  /\ last.fmt.used = kArgMsgSize - 1
  /\ \E i \in 1..Len(last.fmt.writes) :
       /\ last.fmt.writes[i].len > kArgMsgSize
       /\ last.fmt.writes[i].n = kArgMsgSize - 1
  /\ \E i \in 1..Len(last.fmt.writes) :
       /\ last.fmt.writes[i].avail = 1
       /\ last.fmt.writes[i].len > 0
       /\ last.fmt.writes[i].n = 0

----------------------------------------------------------------------------
(* C8 as stated: the stored priority of a log row is PRIO_INFO when the    *)
(* source priority is 0 or absent and the source priority unchanged for    *)
(* every other value, 256 and above included.                              *)
C8_PriorityPassThrough ==
  [][(last'.op = "log_event" /\ RowInserted) =>
       NewLogRow.prio = IF ~last'.evt.prio.has \/ last'.evt.prio.val = 0
                        THEN PRIO_INFO ELSE last'.evt.prio.val]_vars

----------------------------------------------------------------------------
(* C9 as stated: with a named argument the row's message is the whole      *)
(* concatenation of the " name=value" fragments without its leading space, *)
(* a literal message notwithstanding; without one it is the literal        *)
(* message, or empty.                                                      *)
C9_FullConcatenation ==
  [][(last'.op = "log_event" /\ RowInserted) =>
       GetString(string_pool', NewLogRow.msg) =
         IF HasNamedArg(last'.evt)
         THEN Tail(Concatenation(last'.evt.args))
         ELSE LiteralMessage(last'.evt)]_vars

(* C9, amended: with a named argument the row's message is the first 4095  *)
(* characters of the concatenation of the " name=value" fragments, without *)
(* the leading space, a literal message notwithstanding; without one it is *)
(* the literal message, or empty.                                          *)
C9_TruncatedConcatenation ==
  [][(last'.op = "log_event" /\ RowInserted) =>
       GetString(string_pool', NewLogRow.msg) =
         IF HasNamedArg(last'.evt)
         THEN Tail(Take(Concatenation(last'.evt.args), kArgMsgSize - 1))
         ELSE LiteralMessage(last'.evt)]_vars

\* An event with a literal message and two long string arguments got the
\* synthesized text, cut to 4094 characters after the leading space.
C9_Witness ==
  /\ last.op = "log_event"
  /\ last.evt.message.has
  /\ Len(last.evt.args) = 2
  /\ last.evt.args[1].name.val = <<"s">>
  /\ last.evt.args[2].name.val = <<"s">>
  /\ Len(android_log_table) = 1
  /\ Len(GetString(string_pool, android_log_table[1].msg)) = kArgMsgSize - 2
  /\ SubSeq(GetString(string_pool, android_log_table[1].msg), 1, 4) =
       <<"s", "=", "\"", "x">>

----------------------------------------------------------------------------
(* C10: after ParseAndroidLogStats each of the three log stats holds the   *)
(* payload's value if the payload carries the field (overwritten, not      *)
(* summed) and its previous value otherwise; no other stat changes and no  *)
(* row is emitted.  By induction each stat is the most recent value.       *)
C10_StatsOverwrite ==
  [][last'.op = "log_stats" =>
       LET e == last'.evt
       IN  /\ stats'["android_log_num_failed"] =
                IF e.num_failed.has THEN e.num_failed.val
                ELSE stats["android_log_num_failed"]
           /\ stats'["android_log_num_skipped"] =
                IF e.num_skipped.has THEN e.num_skipped.val
                ELSE stats["android_log_num_skipped"]
           /\ stats'["android_log_num_total"] =
                IF e.num_total.has THEN e.num_total.val
                ELSE stats["android_log_num_total"]
           /\ \A k \in StatKeys \ LogStatKeys : stats'[k] = stats[k]
           /\ RowsUnchanged]_vars

\* A second payload without num_failed kept the first payload's value and
\* overwrote num_total.
C10_Witness ==
  /\ last.op = "log_stats"
  /\ packets = 2
  /\ ~last.evt.num_failed.has
  /\ stats["android_log_num_failed"] = 2
  /\ last.evt.num_total.has
  /\ last.evt.num_total.val = 1
  /\ stats["android_log_num_total"] = 1
  /\ stats["android_log_num_skipped"] = 0

====
